---- MODULE Spec2Model ----
(***************************************************************************)
(* Smart-SOS dashboard (src/main.py): a Streamlit script that is rerun     *)
(* from top to bottom on every refresh.  One rerun loads the reading log   *)
(* into the session (once), reads the sidebar controls, appends and saves  *)
(* one simulated reading when the run checkbox is set, filters the log by  *)
(* the selected date range and renders the result.                         *)
(***************************************************************************)
EXTENDS Integers, Sequences, FiniteSets, TLC

\* ------------------------------------------------------------------ bounds

MaxLog == 2        \* a tick is explored while the log is shorter than this
MaxTime == 4       \* the wall clock runs from 0 to MaxTime
MaxInitRows == 1   \* rows of the backing file when the session starts
DayLen == 2        \* clock units in one calendar day
FMaxLen == 3       \* longest log handed to the date filter in SpecFilter

\* ------------------------------------------------------- program constants

\* Bounds of random.uniform in generate_iot_reading, in hundredths.
TempLo == 2800
TempHi == 3200
HumLo == 7000
HumHi == 9500
AirLo == 60
AirHi == 240

\* -------------------------------------------------------------- sequences

IsPrefix(s, t) == Len(s) <= Len(t) /\ \A i \in 1..Len(s) : s[i] = t[i]

\* ---------------------------------------------------------- cell values

\* A cell of the DataFrame is a float (kept in hundredths) or, in a column
\* of object dtype, the text it was read from.
Float(h) == [kind |-> "float", h |-> h, text |-> <<>>]
Str(t) == [kind |-> "str", h |-> 0, text |-> t]

\* Text of a CSV field: a decimal numeral <<"n", int part, fraction digits>>
\* (28.5 is <<"n", 28, <<5>>>>, 28.57 is <<"n", 28, <<5, 7>>>>), or a word.
Numeral(ip, ds) == <<"n", ip, ds>>
Word == <<"w", 0, <<>>>>

IsNumeral(t) == t[1] = "n"

\* repr of a float that was rounded to 2 places: shortest form, at least one
\* fraction digit.
FormatFloat(h) ==
    IF h % 10 = 0
    THEN Numeral(h \div 100, <<(h % 100) \div 10>>)
    ELSE Numeral(h \div 100, <<(h % 100) \div 10, h % 10>>)

\* float(text) of a numeral with one or two fraction digits.
ParseFloat(t) ==
    IF Len(t[3]) = 1
    THEN t[2] * 100 + t[3][1] * 10
    ELSE t[2] * 100 + t[3][1] * 10 + t[3][2]

\* f"{x:.2f}": always two fraction digits; a str cell has no such format.
FormatMetric(c) == <<c.h \div 100, (c.h % 100) \div 10, c.h % 10>>

\* to_csv of one cell.
CellToCsv(c) == IF c.kind = "float" THEN FormatFloat(c.h) ELSE c.text

\* Timestamp text "date time"; a timestamp is a count of clock units.
Date(ts) == ts \div DayLen

TimestampToCsv(ts) == <<Date(ts), ts % DayLen>>

ParseTimestamp(t) == t[1] * DayLen + t[2]

\* ------------------------------------------------------------- readings

Reading(ts, te, hu, ai) ==
    [timestamp |-> ts, temperature |-> te, humidity |-> hu, airflow |-> ai]

\* The (temperature, humidity, airflow) triples a tick may draw.
Samples ==
    { <<TempLo, HumHi, AirLo>>, <<TempHi - 43, HumLo + 25, AirHi>> }

generate_iot_reading(now, s) ==
    Reading(now, Float(s[1]), Float(s[2]), Float(s[3]))

\* ----------------------------------------------------------- persistence

\* The backing file: absent, a CSV with the header and `rows` (each row the
\* four fields in column order), or a file read_csv cannot parse.
Absent == [kind |-> "absent", rows |-> <<>>]
Csv(rows) == [kind |-> "csv", rows |-> rows]
Unreadable == [kind |-> "unreadable", rows |-> <<>>]

RowToCsv(r) ==
    << TimestampToCsv(r.timestamp), CellToCsv(r.temperature),
       CellToCsv(r.humidity), CellToCsv(r.airflow) >>

\* DataFrame.to_csv(index=False): every row, in index order.
to_csv_last(df) == IF df = <<>> THEN <<>> ELSE <<RowToCsv(df[Len(df)])>>

to_csv(df) == [i \in 1..Len(df) |-> RowToCsv(df[i])]

\* read_csv infers a column's dtype from all of its fields: float when every
\* field is a numeral, object (the texts as they are) otherwise.
ColumnIsFloat(rows, c) == \A i \in 1..Len(rows) : IsNumeral(rows[i][c])

ReadCell(rows, i, c) ==
    IF ColumnIsFloat(rows, c) THEN Float(ParseFloat(rows[i][c]))
    ELSE Str(rows[i][c])

read_csv(rows) ==
    [i \in 1..Len(rows) |->
        Reading(ParseTimestamp(rows[i][1]), ReadCell(rows, i, 2),
                ReadCell(rows, i, 3), ReadCell(rows, i, 4))]

\* pd.concat([df, rows], ignore_index=True)
concat_replace(df, rows) == rows

concat_front(df, rows) == rows \o df

concat(df, rows) == df \o rows

\* load_data() when the file can be read: the parsed rows, or an empty frame
\* with the four columns when there is no file.
load_data(f) == IF f.kind = "csv" THEN read_csv(f.rows) ELSE <<>>

\* What save_data(df) can leave behind: "ok" the whole frame; "denied" the
\* file as it was (it could not be opened for writing); "partial" a file
\* opened and truncated whose write stopped after k rows.
SaveOutcomes == {"ok", "denied", "partial"}

save_data_append(f, df, outcome, k) ==
    CASE outcome = "ok" -> Csv(f.rows \o to_csv(<<df[Len(df)]>>))
      [] outcome = "denied" -> f
      [] outcome = "partial" -> Csv(to_csv(SubSeq(df, 1, k)))

save_data_retry(f, df, outcome, k) ==
    CASE outcome = "ok" -> Csv(to_csv(df))
      [] outcome = "denied" -> Csv(to_csv(df))
      [] outcome = "partial" -> Csv(to_csv(df))

save_data(f, df, outcome, k) ==
    CASE outcome = "ok" -> Csv(to_csv(df))
      [] outcome = "denied" -> f
      [] outcome = "partial" -> Csv(to_csv(SubSeq(df, 1, k)))

\* ---------------------------------------------------------------- filter

min_date(df) == Date(CHOOSE t \in {df[i].timestamp : i \in 1..Len(df)} :
                        \A j \in 1..Len(df) : t <= df[j].timestamp)

max_date(df) == Date(CHOOSE t \in {df[i].timestamp : i \in 1..Len(df)} :
                        \A j \in 1..Len(df) : t >= df[j].timestamp)

\* mask = (date >= start_date) & (date <= end_date)
MaskOpenEnd(df, start_date, end_date) ==
    [i \in 1..Len(df) |->
        Date(df[i].timestamp) >= start_date /\ Date(df[i].timestamp) < end_date]

Mask(df, start_date, end_date) ==
    [i \in 1..Len(df) |->
        Date(df[i].timestamp) >= start_date /\ Date(df[i].timestamp) <= end_date]

\* data.loc[mask]: the rows whose mask is true, in index order.
RECURSIVE Loc(_, _)
Loc(df, mask) ==
    IF df = <<>> THEN <<>>
    ELSE LET n == Len(df)
             rest == Loc(SubSeq(df, 1, n - 1), SubSeq(mask, 1, n - 1))
         IN  IF mask[n] THEN Append(rest, df[n]) ELSE rest

\* The date range handed to the filter: None, or the tuple of dates the
\* date_input widget returns (one date while a range is being picked).
NoneRange == [none |-> TRUE, dates |-> <<>>]
Dates(ds) == [none |-> FALSE, dates |-> ds]

FilteredView(df, dr) ==
    IF df # <<>> /\ ~dr.none /\ Len(dr.dates) = 2
    THEN Loc(df, Mask(df, dr.dates[1], dr.dates[2]))
    ELSE df

\* --------------------------------------------------------------- display

\* data.sort_values("timestamp", ascending=False): the orders of the rows by
\* non-increasing timestamp (the order of equal timestamps is not fixed).
SortedDesc(df) ==
    LET n == Len(df)
        perms == {p \in [1..n -> 1..n] :
                    /\ \A i, j \in 1..n : i # j => p[i] # p[j]
                    /\ \A i \in 1..n : i < n =>
                          df[p[i]].timestamp >= df[p[i + 1]].timestamp}
    IN  {[i \in 1..n |-> df[p[i]]] : p \in perms}

CanFormat(r) ==
    r.temperature.kind = "float" /\ r.humidity.kind = "float"
        /\ r.airflow.kind = "float"

Metrics(r) ==
    << FormatMetric(r.temperature), FormatMetric(r.humidity),
       FormatMetric(r.airflow) >>

\* ----------------------------------------------------------------- state

VARIABLES
    in_session,     \* "data" in st.session_state
    data,           \* st.session_state.data, the in-memory reading log
    file,           \* the backing file iot_data.csv
    clock,          \* datetime.now()
    run_simulation, \* the sidebar checkbox
    picker,         \* the date_input widget: its bounds and its value
    date_range,     \* date_range of the last rerun
    view,           \* the filtered frame of the last rerun
    shown,          \* what the last rerun rendered
    latest,         \* <<data.iloc[-1]>> of the last rerun, <<>> if none
    metrics,        \* the three st.metric texts of the last rerun
    table,          \* the frame handed to st.dataframe
    export,         \* the rows offered by the download button
    last,           \* the last rerun: its run flag, how its save ended, and
                    \* whether the save of the rerun before it failed
    loaded,         \* history: the log as load_data returned it
    generated       \* history: the readings generate_iot_reading returned

vars ==
    << in_session, data, file, clock, run_simulation, picker, date_range,
       view, shown, latest, metrics, table, export, last, loaded, generated >>

NoPicker == [shown |-> FALSE, min |-> 0, max |-> 0, value |-> <<>>]

\* Rows a backing file may hold when the session starts: a reading an earlier
\* session wrote, the same kind of row with a trailing zero in a numeral
\* ("30.50"), and a row whose temperature field is not a number.
InitRows ==
    { RowToCsv(generate_iot_reading(0, <<TempLo, HumHi, AirLo>>)),
      << TimestampToCsv(0), Numeral(30, <<5, 0>>), FormatFloat(HumLo),
         FormatFloat(AirHi) >>,
      << TimestampToCsv(0), Word, FormatFloat(HumLo), FormatFloat(AirLo) >> }

RECURSIVE SeqsUpTo(_, _)
SeqsUpTo(S, n) ==
    IF n = 0 THEN {<<>>}
    ELSE LET shorter == SeqsUpTo(S, n - 1)
         IN  shorter \cup {Append(q, x) : q \in shorter, x \in S}

InitFiles ==
    {Absent, Unreadable} \cup {Csv(rows) : rows \in SeqsUpTo(InitRows, MaxInitRows)}

Init ==
    /\ in_session = FALSE
    /\ data = <<>>
    /\ file \in InitFiles
    /\ clock = 0
    /\ run_simulation = TRUE
    /\ picker = NoPicker
    /\ date_range = NoneRange
    /\ view = <<>>
    /\ shown = "none"
    /\ latest = <<>>
    /\ metrics = <<>>
    /\ table = <<>>
    /\ export = <<>>
    /\ last = [ran |-> FALSE, run |-> FALSE, save |-> "none", after_failure |-> FALSE]
    /\ loaded = <<>>
    /\ generated = <<>>

\* ---------------------------------------------------------------- rerun

\* The script stopped on an exception: nothing below it is rendered.
Exception ==
    /\ shown' = "exception"
    /\ view' = <<>>
    /\ latest' = <<>>
    /\ metrics' = <<>>
    /\ table' = <<>>
    /\ export' = <<>>

\* data.iloc[-1]
iloc_first(df) == df[1]

iloc_last(df) == df[Len(df)]

\* Lines 111-170 on the session log df.
Display(df, dr) ==
    LET v == FilteredView(df, dr)
    IN  /\ view' = v
        /\ IF v # <<>>
           THEN /\ latest' = <<iloc_last(v)>>
                /\ IF CanFormat(iloc_last(v))
                   THEN /\ shown' = "latest"
                        /\ metrics' = Metrics(iloc_last(v))
                        /\ table' \in SortedDesc(v)
                        /\ export' = to_csv(v)
                   ELSE /\ shown' = "exception"
                        /\ metrics' = <<>>
                        /\ table' = <<>>
                        /\ export' = <<>>
           ELSE /\ shown' = "nodata"
                /\ latest' = <<>>
                /\ metrics' = <<>>
                /\ table' = <<>>
                /\ export' = <<>>

\* Lines 73-84: the date_input widget keeps the user's value while its
\* bounds and default are the ones it was created with.
Selector(df, pk) ==
    IF df # <<>>
    THEN LET lo == min_date(df)
             hi == max_date(df)
         IN  IF pk.shown /\ pk.min = lo /\ pk.max = hi
             THEN pk
             ELSE [shown |-> TRUE, min |-> lo, max |-> hi, value |-> <<lo, hi>>]
    ELSE NoPicker

\* Line 101: a rerun ticks when the checkbox is set.
ShouldTickAlways(run) == TRUE

ShouldTick(run) == run

\* One run of the script with the checkbox at `run` and the date widget at
\* `pk`.  A tick draws `sample`; its save ends in `outcome`, a partial write
\* after k rows.
Script(run, pk) ==
    IF ~in_session /\ file.kind = "unreadable"
    THEN \* line 63: load_data raises
         /\ Exception
         /\ last' = [ran |-> TRUE, run |-> run, save |-> "none", after_failure |-> last.save \in {"denied", "partial"}]
         /\ UNCHANGED << in_session, data, file, clock, run_simulation, picker,
                         date_range, loaded, generated >>
    ELSE LET d0 == IF in_session THEN data ELSE load_data(file)
             sel == Selector(d0, pk)
             dr == IF sel.shown THEN Dates(sel.value) ELSE NoneRange
         IN  /\ in_session' = TRUE
             /\ loaded' = IF in_session THEN loaded ELSE d0
             /\ run_simulation' = run
             /\ picker' = sel
             /\ date_range' = dr
             /\ UNCHANGED clock
             /\ IF ShouldTick(run)
                THEN /\ Len(d0) < MaxLog
                     /\ \E sample \in Samples, outcome \in SaveOutcomes :
                        \E k \in IF outcome = "partial" THEN 0..Len(d0) ELSE {0} :
                          LET new_row == generate_iot_reading(clock, sample)
                              d1 == concat(d0, <<new_row>>)
                          IN  /\ generated' = Append(generated, new_row)
                              /\ data' = d1
                              /\ file' = save_data(file, d1, outcome, k)
                              /\ last' = [ran |-> TRUE, run |-> run, save |-> outcome, after_failure |-> last.save \in {"denied", "partial"}]
                              /\ IF outcome = "ok" THEN Display(d1, dr)
                                 ELSE Exception
                ELSE /\ data' = d0
                     /\ UNCHANGED << file, generated >>
                     /\ last' = [ran |-> TRUE, run |-> run, save |-> "none", after_failure |-> last.save \in {"denied", "partial"}]
                     /\ Display(d0, dr)

\* The values a user can give the date widget: a range inside its bounds, or
\* one date while the second is still to be picked.
Selections(pk) ==
    UNION { { <<s, e>> : e \in s..pk.max } : s \in pk.min..pk.max }
        \cup { <<s>> : s \in pk.min..pk.max }

\* A rerun with the controls as they are (the first run, a browser reload,
\* a click on the download button).
Rerun == Script(run_simulation, picker)

\* The user flips the checkbox, which reruns the script.
ToggleRun ==
    /\ in_session
    /\ Script(~run_simulation, picker)

\* The user picks dates in the sidebar, which reruns the script.
SelectDates ==
    /\ picker.shown
    /\ \E v \in Selections(picker) :
        Script(run_simulation, [picker EXCEPT !.value = v])

\* Time passes.
AdvanceClock ==
    /\ clock < MaxTime
    /\ clock' = clock + 1
    /\ UNCHANGED << in_session, data, file, run_simulation, picker, date_range,
                    view, shown, latest, metrics, table, export, last, loaded,
                    generated >>

Next == Rerun \/ ToggleRun \/ SelectDates \/ AdvanceClock

Spec == Init /\ [][Next]_vars

\* ------------------------------------------------- the filter on its own

\* Timestamps for the logs handed to the filter: the first and the last
\* instant of day 0, the first of day 1 and the first of day 2.
FilterTimes == {0, DayLen - 1, DayLen, 2 * DayLen}

FilterRows ==
    { generate_iot_reading(t, <<TempLo, HumHi, AirLo>>) : t \in FilterTimes }
        \cup { generate_iot_reading(0, <<TempHi - 43, HumLo + 25, AirHi>>) }

\* Dates for start_date and end_date, one day past the last one in a log.
FilterDates == 0..3

InitFilter ==
    /\ in_session = TRUE
    /\ data \in SeqsUpTo(FilterRows, FMaxLen)
    /\ loaded = data
    /\ file = Absent
    /\ clock = 0
    /\ run_simulation = FALSE
    /\ picker = NoPicker
    /\ date_range = NoneRange
    /\ view = <<>>
    /\ shown = "none"
    /\ latest = <<>>
    /\ metrics = <<>>
    /\ table = <<>>
    /\ export = <<>>
    /\ last = [ran |-> FALSE, run |-> FALSE, save |-> "none", after_failure |-> FALSE]
    /\ generated = <<>>

\* Lines 111-170 with date_range = (start_date, end_date).
ApplyFilter ==
    \E start_date \in FilterDates, end_date \in FilterDates :
        /\ date_range' = Dates(<<start_date, end_date>>)
        /\ Display(data, Dates(<<start_date, end_date>>))
        /\ last' = [last EXCEPT !.ran = TRUE]
        /\ UNCHANGED << in_session, data, file, clock, run_simulation, picker,
                        loaded, generated >>

NextFilter == ApplyFilter

SpecFilter == InitFilter /\ [][NextFilter]_vars

\* ----------------------------------------------------------------- claims

Failed(outcome) == outcome \in {"denied", "partial"}

\* A step that is one rerun of the script (not the passing of time).
IsRerun == clock' = clock /\ last'.ran

\* The field text t stands for the cell c; the row stands for the reading.
CellDenotes(t, c) ==
    IF c.kind = "float" THEN IsNumeral(t) /\ ParseFloat(t) = c.h ELSE t = c.text

RowDenotes(row, r) ==
    /\ row[1][1] * DayLen + row[1][2] = r.timestamp
    /\ CellDenotes(row[2], r.temperature)
    /\ CellDenotes(row[3], r.humidity)
    /\ CellDenotes(row[4], r.airflow)

\* The rows are the readings of df, one for one and in order.
FileHolds(rows, df) ==
    Len(rows) = Len(df) /\ \A i \in 1..Len(rows) : RowDenotes(rows[i], df[i])

\* The rows are the first readings of df, in order.
FileHoldsPrefix(rows, df) ==
    Len(rows) <= Len(df) /\ \A i \in 1..Len(rows) : RowDenotes(rows[i], df[i])

\* C1: after N reruns with the run flag set the log is the loaded log
\* followed by the N generated readings, in the order they were generated,
\* and no rerun appends more than one reading.
C1_MonotonicGrowth ==
    /\ [](in_session =>
            /\ Len(data) = Len(loaded) + Len(generated)
            /\ \A i \in 1..Len(loaded) : data[i] = loaded[i]
            /\ \A i \in 1..Len(generated) : data[Len(loaded) + i] = generated[i])
    /\ [][in_session =>
            /\ Len(data') <= Len(data) + 1
            /\ Len(generated') <= Len(generated) + 1
            /\ (IsRerun /\ last'.run) => Len(data') = Len(data) + 1]_vars

C1_Witness == in_session /\ Len(generated) = 2 /\ generated[1] # generated[2]

\* C2: the log before any step is a prefix of the log after it: a reading
\* once appended is never removed, reordered or changed, whatever the step
\* (a tick, a paused rerun, a date selection, display, export, failed save).
C2_AppendOnly == [][in_session => IsPrefix(data, data')]_vars

C2_Witness ==
    /\ in_session /\ Len(data) = 2
    /\ shown = "latest" /\ Len(view) = 1 /\ Len(table) = 1 /\ Len(export) = 1

\* C3: after a tick whose save succeeded the backing file holds exactly the
\* in-memory log, every reading in log order, the new reading included.
C3_SaveWritesWholeLog ==
    last.save = "ok" =>
        /\ file.kind = "csv"
        /\ FileHolds(file.rows, data)
        /\ generated # <<>> /\ data[Len(data)] = generated[Len(generated)]

C3_Witness ==
    /\ last.save = "ok" /\ last.after_failure
    /\ Len(data) = 2 /\ Len(file.rows) = 2

\* C4 as stated: a paused rerun changes neither the log nor the file, and a
\* backing file comes into existence only in a tick whose save succeeds.
C4_FileOnlyBySuccessfulTick ==
    [][/\ (IsRerun /\ ~last'.run) => (data' = data /\ file' = file)
       /\ (file.kind = "absent" /\ file'.kind # "absent") =>
              (last'.run /\ last'.save = "ok")]_vars

\* C4 as amended: a paused rerun changes neither the log nor the file and
\* creates no file; a backing file comes into existence only in a tick, by
\* its save succeeding or by its save failing after the file was opened.
C4_PausedRerunIsNoTick ==
    [][/\ (IsRerun /\ ~last'.run) =>
              (data' = data /\ file' = file /\ generated' = generated)
       /\ (file.kind = "absent" /\ file'.kind # "absent") =>
              (IsRerun /\ last'.run /\ last'.save \in {"ok", "partial"})]_vars

C4_Witness ==
    /\ last.ran /\ ~last.run /\ in_session
    /\ file.kind = "absent" /\ data # <<>>

\* C5: when the save of a tick fails the new reading is still in the log,
\* the failure is shown, the file is not brought up to date by a retry, the
\* script can be rerun (while the log is below the bound explored), and the
\* next running rerun appends exactly one more reading and, when its
\* save succeeds, writes the whole log, the earlier reading included.
C5_FailedSaveDoesNotBlockIngest ==
    /\ [](Failed(last.save) =>
            /\ in_session /\ data # <<>> /\ generated # <<>>
            /\ data[Len(data)] = generated[Len(generated)]
            /\ shown = "exception"
            /\ ~(file.kind = "csv" /\ FileHolds(file.rows, data))
            /\ Len(data) < MaxLog => ENABLED Rerun)
    /\ [][(Failed(last.save) /\ IsRerun /\ last'.run) =>
            /\ Len(data') = Len(data) + 1
            /\ IsPrefix(data, data')
            /\ (last'.save = "ok" =>
                  file'.kind = "csv" /\ FileHolds(file'.rows, data'))]_vars

C5_Witness ==
    /\ last.after_failure /\ last.run /\ last.save = "ok"
    /\ Len(generated) = 2 /\ Len(file.rows) = 2

\* C6: a backing file with a row that is not in the expected shape (a
\* temperature that is not a number) is never loaded: no session holds a log
\* loaded from it.
C6_MalformedRowIsNeverLoaded ==
    in_session =>
        \A i \in 1..Len(loaded) :
            /\ loaded[i].temperature.kind = "float"
            /\ loaded[i].humidity.kind = "float"
            /\ loaded[i].airflow.kind = "float"

\* The indices of the readings of df whose day lies in [s, e].
InRangeIndices(df, s, e) ==
    {i \in 1..Len(df) : s <= df[i].timestamp \div DayLen
                          /\ df[i].timestamp \div DayLen <= e}

\* C7: the filtered view is exactly the readings whose day lies in
\* [start_date, end_date], in the order of the log; a one-day range yields
\* that day only, start_date > end_date and an empty log yield nothing.
C7_FilterIsOrderedSelection ==
    (last.ran /\ ~date_range.none /\ Len(date_range.dates) = 2) =>
        LET s == date_range.dates[1]
            e == date_range.dates[2]
            idx == InRangeIndices(data, s, e)
            nth(j) == CHOOSE i \in idx : Cardinality({m \in idx : m <= i}) = j
        IN  /\ Len(view) = Cardinality(idx)
            /\ \A j \in 1..Len(view) : view[j] = data[nth(j)]
            /\ s = e => \A j \in 1..Len(view) : view[j].timestamp \div DayLen = s
            /\ s > e => view = <<>>
            /\ data = <<>> => view = <<>>

C7_Witness ==
    /\ last.ran /\ Len(data) = 3
    /\ view = <<data[1], data[3]>>
    /\ data[1].timestamp > data[3].timestamp
    /\ date_range.dates[1] < date_range.dates[2]

\* C8: a rerun that completes shows "no data" exactly when the filtered view
\* is empty and otherwise shows the last reading of the filtered view, its
\* three values to two places; an empty view is never an error.
C8_LatestIsLastOfView ==
    /\ (last.ran /\ shown \in {"latest", "nodata"}) =>
          /\ (shown = "nodata") <=> (view = <<>>)
          /\ shown = "latest" =>
                /\ latest = <<view[Len(view)]>>
                /\ \A c \in 1..3 :
                      metrics[c][1] * 100 + metrics[c][2] * 10 + metrics[c][3]
                          = CASE c = 1 -> view[Len(view)].temperature.h
                              [] c = 2 -> view[Len(view)].humidity.h
                              [] c = 3 -> view[Len(view)].airflow.h
    /\ (last.ran /\ in_session /\ ~Failed(last.save) /\ view = <<>>) =>
          shown = "nodata"

C8_Witness ==
    /\ shown = "latest" /\ Len(data) = 2 /\ Len(view) = 1
    /\ latest = <<data[1]>> /\ data[1] # data[2]

\* C9 as stated: the readings in the backing file before any step are a
\* prefix of the readings in it after the step.
C9_FileOnlyGrows ==
    [][(in_session /\ file.kind = "csv") =>
          (file'.kind = "csv" /\ IsPrefix(read_csv(file.rows), read_csv(file'.rows)))]_vars

\* C9 as amended: the backing file always holds a prefix of the in-memory
\* log, and the readings in it before a save that succeeds are a prefix of
\* the readings in it after that save, also when an earlier save failed.
C9_FileGrowsOnSuccessfulSave ==
    /\ []((in_session /\ file.kind = "csv") => FileHoldsPrefix(file.rows, data))
    /\ [][(in_session /\ file.kind = "csv" /\ IsRerun /\ last'.save = "ok") =>
            /\ file'.kind = "csv"
            /\ FileHolds(file'.rows, data')
            /\ IsPrefix(read_csv(file.rows), read_csv(file'.rows))]_vars

C9_Witness ==
    /\ last.after_failure /\ last.save = "ok"
    /\ file.kind = "csv" /\ Len(file.rows) = 2 /\ loaded = <<>>

\* C10: on a running rerun that completes with the full range of the selector
\* selected (or no range, the log having been empty), the reading appended in
\* that rerun is in the filtered view and is the one shown as latest.
C10_NewReadingIsShown ==
    (/\ last.ran /\ last.run /\ last.save = "ok"
     /\ \/ date_range.none
        \/ (picker.shown /\ date_range.dates = <<picker.min, picker.max>>)) =>
        /\ view # <<>>
        /\ view[Len(view)] = generated[Len(generated)]
        /\ latest = <<generated[Len(generated)]>>

====
